---- MODULE Spec2Model ----
(***************************************************************************)
(* dadafilterbank (src/main.c): parse the command line, open the run log,  *)
(* connect to a PSRDADA ring buffer, read the header block, resolve the    *)
(* run parameters, open one filterbank file per tied-array beam, then      *)
(* transpose every ring-buffer page                                        *)
(*     page [NTABS, nchannels, time(padded_size)]                          *)
(* into                                                                    *)
(*     file [time, nchannels]   (frequency order reversed)                 *)
(* and append it to the beam's file.  SIGINT is caught by sigint_handler,  *)
(* which syncs and closes the files and exits with EXIT_FAILURE.           *)
(*                                                                         *)
(* The array axes are scaled down: nchannels, NTIMES_SC3, NTIMES_SC4 stand *)
(* for 1536, 12500, 25000 and MAXTABS, NTABS_TAB for the 12 tied-array     *)
(* beams, FNAME_SIZE for the 256 characters of a file name.                *)
(* filterbank_create and filterbank_close live in filterbank.c,            *)
(* which is not part of src/; they are modelled as "create the file and    *)
(* write its header" and "close the descriptor".                           *)
(***************************************************************************)
EXTENDS Integers, Sequences, FiniteSets, TLC

(* ------------------------------------------------------------------ *)
(* Program constants                                                   *)
(* ------------------------------------------------------------------ *)
\* #define MAXTABS 12 (scaled)
MAXTABS == 3
EXIT_SUCCESS == 0
EXIT_FAILURE == 1
\* the signal number of SIGINT; a process killed by it reports 128 + SIGINT
SIGINT == 2
\* the signal number of SIGSEGV
SIGSEGV == 11

\* const unsigned int nchannels = 1536 (scaled)
nchannels == 2
\* ntimes for science case 3 (12500, scaled) and science case 4 (25000, scaled)
NTIMES_SC3 == 2
NTIMES_SC4 == 4
\* ntabs for science mode 0 (I + TAB: 12, scaled) and science mode 2 (I + IAB: 1)
NTABS_TAB == 3
NTABS_IAB == 1
\* defaults of the globals (lowest data rate)
DEFAULT_CASE == 3
DEFAULT_MODE == 2
\* char fname[256] in open_files (scaled)
FNAME_SIZE == 10

(* ------------------------------------------------------------------ *)
(* Bounds of the model                                                 *)
(* ------------------------------------------------------------------ *)
\* the transport hands out at most MaxPages data pages before end of data
MaxPages == 2
\* at most one write() per run is short or fails (write_fault)

\* values a key of the header block may carry: <<v>>, or <<>> when the key is absent
CaseInputs == {<<>>, <<2>>, <<3>>, <<4>>}
ModeInputs == {<<>>, <<0>>, <<1>>, <<2>>, <<3>>, <<4>>}
PaddedInputs == {<<>>, <<NTIMES_SC3>>, <<NTIMES_SC4>>, <<NTIMES_SC4 + 1>>}
\* strings are sequences of characters
KeyArg == <<"d", "a", "d", "a">>
LogArg == <<"l", "o", "g">>
ShortPrefix == <<"o">>
\* a prefix as long as fname can hold
LongPrefix == [i \in 1 .. FNAME_SIZE - 1 |-> "p"]
Opt(f, a) == [flag |-> f, optarg |-> a]
\* the command lines the program is started with
ArgvInputs ==
  { <<>>,
    <<Opt("h", <<>>)>>,
    <<Opt("x", <<>>)>>,
    <<Opt("b", <<"1">>)>>,
    <<Opt("k", KeyArg), Opt("l", LogArg)>>,
    <<Opt("k", KeyArg), Opt("n", ShortPrefix)>>,
    <<Opt("l", LogArg), Opt("n", ShortPrefix)>>,
    <<Opt("k", KeyArg), Opt("l", LogArg), Opt("n", ShortPrefix), Opt("h", <<>>)>>,
    <<Opt("k", KeyArg), Opt("l", LogArg), Opt("n", ShortPrefix)>>,
    <<Opt("n", LongPrefix), Opt("l", LogArg), Opt("k", KeyArg)>> }
\* fill patterns of the pages the producer writes
PageSeeds == {0, 1}
\* what a read past the end of a page may return (when it returns)
Garbage == {255}
\* the two behaviours signal() may have: BSD (handler stays installed, the signal
\* is blocked while the handler runs) or System V (the disposition is reset to
\* SIG_DFL when the handler is entered, the signal is not blocked)
SignalSemantics == {"bsd", "sysv"}

\* a null pointer; a pointer to a page is <<seed>>, the page's fill pattern
NULL == <<>>
\* the content of memory that malloc returned and nobody wrote
Uninit == -1
\* first descriptor open() hands out (0, 1, 2 are the standard streams, 3 the run log)
FIRST_FD == 4

VARIABLES
  argv,          \* the command line: a sequence of [flag, optarg]
  file_prefix,   \* char *file_prefix: <<>> while unset, then <<the string>>
  console,       \* what printf / fprintf(stderr, ...) have printed
  stale_read,    \* the memory of a block was read after the block was marked cleared
  pc,            \* position of main()
  exit_status,   \* <<>> while the process runs, then <<status>>
  sigsem,        \* which signal() semantics the build has
  disposition,   \* disposition of SIGINT: "default" | "handler"
  hpc,           \* position of sigint_handler: "idle" | "log" | "loop" | "exit"
  sig_blocked,   \* SIGINT is blocked (BSD semantics, while the handler runs)
  sig_pending,   \* a blocked SIGINT is pending
  hi,            \* sigint_handler's loop variable i
  rb,            \* state of the HDU: "created" | "connected" | "locked" | "unlocked" | "disconnected"
  hdr_cleared,   \* number of ipcbuf_mark_cleared calls on the header block
  science_case, science_mode, padded_size,
  ntimes, ntabs, tsamp,
  output,        \* int output[MAXTABS]
  files,         \* the files behind the descriptors
  tab,           \* loop variable of open_files / of the beam loop
  page,          \* char *page: NULL or the fill pattern of the page it points to
  quit, page_count,
  buffer,        \* char *buffer
  delivered,     \* the pages handed out by ipcbuf_get_next_read, in order
  cleared,       \* number of ipcbuf_mark_cleared calls on the data block
  eod,           \* the transport has signalled end of data
  eos_observed,  \* main saw end of data or a NULL page
  write_fault,   \* a write() was short or failed (at most one does per run)
  log            \* what LOG(...) has printed

vars == <<argv, file_prefix, console, stale_read,
          pc, exit_status, sigsem, disposition, hpc, sig_blocked, sig_pending, hi,
          rb, hdr_cleared, science_case, science_mode, padded_size, ntimes, ntabs, tsamp,
          output, files, tab, page, quit, page_count, buffer, delivered, cleared, eod,
          eos_observed, write_fault, log>>

optVars == <<argv, file_prefix, console>>
procVars == <<pc, exit_status>>
sigVars == <<disposition, hpc, sig_blocked, sig_pending, hi>>
paramVars == <<science_case, science_mode, padded_size, ntimes, ntabs, tsamp>>
rbVars == <<rb, hdr_cleared, delivered, cleared, eod>>
loopVars == <<page, quit, page_count, buffer, eos_observed>>
fileVars == <<output, files, write_fault>>

(* ------------------------------------------------------------------ *)
(* Helpers                                                             *)
(* ------------------------------------------------------------------ *)
Fds == FIRST_FD .. (FIRST_FD + MAXTABS - 1)

\* a file nobody created yet
NoFile == [created |-> FALSE, open |-> FALSE, dirty |-> FALSE, closes |-> 0,
           closed_dirty |-> FALSE, name |-> <<>>, ibeam |-> 0, nbeams |-> 0, data |-> <<>>]

\* the process is alive and main() (not the handler) has the processor
Running == exit_status = <<>>
InHandler == hpc # "idle"
MainRuns == Running /\ ~InHandler

\* LOG(...): the line goes to stdout and to the run log
LOG(msg) == log' = Append(log, msg)

\* exit(status)
Exit(status) == pc' = "exited" /\ exit_status' = <<status>>

\* ascii_header_get(header, key, fmt, &var): var is set only when the key is there
ascii_header_get(field, var) == IF field = <<>> THEN var ELSE field[1]

\* 1.024 / n seconds, as the fraction 1024 / (1000 * n)
Tsamp(n) == <<1024, 1000 * n>>

Init ==
  /\ argv \in ArgvInputs
  /\ file_prefix = <<>>
  /\ console = <<>>
  /\ stale_read = FALSE
  /\ pc = "parse_options"
  /\ exit_status = <<>>
  /\ sigsem \in SignalSemantics
  /\ disposition = "default"
  /\ hpc = "idle"
  /\ sig_blocked = FALSE
  /\ sig_pending = FALSE
  /\ hi = 0
  /\ rb = "created"
  /\ hdr_cleared = 0
  /\ science_case = DEFAULT_CASE
  /\ science_mode = DEFAULT_MODE
  /\ padded_size = NTIMES_SC3
  /\ ntimes = NTIMES_SC3
  /\ ntabs = NTABS_IAB
  /\ tsamp = Tsamp(NTIMES_SC3)
  /\ output = [t \in 0 .. MAXTABS - 1 |-> 0]
  /\ files = [fd \in Fds |-> NoFile]
  /\ tab = 0
  /\ page = NULL
  /\ quit = 0
  /\ page_count = 0
  /\ buffer = <<>>
  /\ delivered = <<>>
  /\ cleared = 0
  /\ eod = FALSE
  /\ eos_observed = FALSE
  /\ write_fault = FALSE
  /\ log = <<>>

(* ------------------------------------------------------------------ *)
(* parseOptions and the run log                                        *)
(* ------------------------------------------------------------------ *)
\* the option characters of the getopt string "b:c:m:k:l:n:"
OptString == {"b", "c", "m", "k", "l", "n"}

\* getopt(argc, argv, "b:c:m:k:l:n:") on one option: its character, or '?' for
\* a character that is not in the option string
getopt(a) == IF a.flag \in OptString THEN a.flag ELSE "?"

\* printOptions()
printOptions(out) ==
  Append(out, "usage: dadafilterbank -k <hexadecimal key> -l <logfile> -n <prefix>")

\* the locals of parseOptions before the loop
NoOptions == [setk |-> 0, setl |-> 0, setn |-> 0, prefix |-> <<>>, out |-> <<>>,
              status |-> <<>>]

\* while((c=getopt(...))!=-1) switch(c): status is <<>> while no exit() was called
RECURSIVE GetoptLoop(_, _, _)
GetoptLoop(av, i, st) ==
  IF i > Len(av)
    THEN st
    ELSE LET c == getopt(av[i]) IN
      IF c = "k" THEN GetoptLoop(av, i + 1, [st EXCEPT !.setk = 1])
      ELSE IF c = "l" THEN GetoptLoop(av, i + 1, [st EXCEPT !.setl = 1])
      ELSE IF c = "n"
        THEN GetoptLoop(av, i + 1, [st EXCEPT !.setn = 1, !.prefix = <<av[i].optarg>>])
      ELSE IF c = "h"
        THEN [st EXCEPT !.out = printOptions(@), !.status = <<EXIT_SUCCESS>>]
      ELSE [st EXCEPT !.out = Append(@, "Unknow option"), !.status = <<EXIT_FAILURE>>]

\* if (!setk || !setl || !setn) { ...; exit(EXIT_FAILURE); }
RequiredOptions(st) ==
  IF st.status # <<>> \/ (st.setk # 0 /\ st.setl # 0 /\ st.setn # 0)
    THEN st
    ELSE [st EXCEPT
            !.out = @ \o (IF st.setk = 0 THEN <<"Error: DADA key not set (k)">> ELSE <<>>)
                      \o (IF st.setl = 0 THEN <<"Error: Log file not set">> ELSE <<>>)
                      \o (IF st.setn = 0 THEN <<"Error: DADA key not set (n)">> ELSE <<>>),
            !.status = <<EXIT_FAILURE>>]

parseOptions(av) == RequiredOptions(GetoptLoop(av, 1, NoOptions))

\* parseOptions(argc, argv, &key, &file_prefix, &logfile);
ParseOptions ==
  /\ MainRuns /\ pc = "parse_options"
  /\ LET r == parseOptions(argv) IN
       /\ console' = r.out
       /\ file_prefix' = r.prefix
       /\ IF r.status # <<>>
            THEN Exit(r.status[1])
            ELSE pc' = "open_log" /\ UNCHANGED exit_status
  /\ UNCHANGED <<argv, stale_read, sigsem, sigVars, rbVars, paramVars, fileVars, tab,
                 loopVars, log>>

\* runlog = fopen(logfile, "w"); when it fails, LOG passes the null runlog to
\* fprintf: the process faults there, or gets past it to exit(EXIT_FAILURE)
OpenLog ==
  /\ MainRuns /\ pc = "open_log"
  /\ \/ /\ LOG("Logging to logfile")
        /\ pc' = "connect"
        /\ UNCHANGED exit_status
     \/ /\ pc' = "killed"
        /\ exit_status' = <<128 + SIGSEGV>>
        /\ UNCHANGED log
     \/ /\ LOG("ERROR opening logfile")
        /\ Exit(EXIT_FAILURE)
  /\ UNCHANGED <<optVars, stale_read, sigsem, sigVars, rbVars, paramVars, fileVars, tab,
                 loopVars>>

(* ------------------------------------------------------------------ *)
(* init_ringbuffer                                                     *)
(* ------------------------------------------------------------------ *)
\* dada_hdu_connect
Connect ==
  /\ MainRuns /\ pc = "connect"
  /\ \E ok \in BOOLEAN :
       IF ok
         THEN /\ rb' = "connected"
              /\ pc' = "lock"
              /\ LOG("SHMKEY")
              /\ UNCHANGED exit_status
         ELSE /\ LOG("ERROR in dada_hdu_connect")
              /\ Exit(EXIT_FAILURE)
              /\ UNCHANGED rb
  /\ UNCHANGED <<sigsem, optVars, stale_read, sigVars, hdr_cleared, delivered, cleared,
                 eod, paramVars, fileVars, tab, loopVars>>

\* dada_hdu_lock_read
LockRead ==
  /\ MainRuns /\ pc = "lock"
  /\ \E ok \in BOOLEAN :
       IF ok
         THEN /\ rb' = "locked"
              /\ pc' = "header"
              /\ UNCHANGED <<exit_status, log>>
         ELSE /\ LOG("ERROR in dada_hdu_open_view")
              /\ Exit(EXIT_FAILURE)
              /\ UNCHANGED rb
  /\ UNCHANGED <<sigsem, optVars, stale_read, sigVars, hdr_cleared, delivered, cleared,
                 eod, paramVars, fileVars, tab, loopVars>>

\* ipcbuf_get_next_read(hdu->header_block) and the ascii_header_get calls
ReadHeader ==
  /\ MainRuns /\ pc = "header"
  /\ \/ /\ LOG("ERROR. Get next header block error")
        /\ Exit(EXIT_FAILURE)
        /\ UNCHANGED <<science_case, science_mode, padded_size>>
     \/ \E c \in CaseInputs, m \in ModeInputs, p \in PaddedInputs :
          /\ science_case' = ascii_header_get(c, science_case)
          /\ science_mode' = ascii_header_get(m, science_mode)
          /\ padded_size' = ascii_header_get(p, padded_size)
          /\ pc' = "clear_header"
          /\ UNCHANGED <<exit_status, log>>
  /\ UNCHANGED <<sigsem, optVars, stale_read, sigVars, rbVars, ntimes, ntabs, tsamp,
                 fileVars, tab, loopVars>>

\* the header block is back with the writer once ipcbuf_mark_cleared was called on it
HeaderReleased(n) == n >= 1

\* ClearHeader without the call of ipcbuf_mark_cleared: the header block is kept
ClearHeader_NoClear ==
  /\ MainRuns /\ pc = "clear_header"
  /\ \E ok \in BOOLEAN :
       IF ok
         THEN /\ hdr_cleared' = hdr_cleared
              /\ LOG("psrdada HEADER")
              /\ stale_read' = (stale_read \/ HeaderReleased(hdr_cleared'))
              /\ pc' = "science_case"
              /\ UNCHANGED exit_status
         ELSE /\ LOG("ERROR. Cannot mark the header as cleared")
              /\ Exit(EXIT_FAILURE)
              /\ UNCHANGED <<hdr_cleared, stale_read>>
  /\ UNCHANGED <<sigsem, optVars, sigVars, rb, delivered, cleared, eod, paramVars,
                 fileVars, tab, loopVars>>

\* ipcbuf_mark_cleared(hdu->header_block), then LOG("psrdada HEADER:\n%s\n", header),
\* which reads the header block
ClearHeader ==
  /\ MainRuns /\ pc = "clear_header"
  /\ \E ok \in BOOLEAN :
       IF ok
         THEN /\ hdr_cleared' = hdr_cleared + 1
              /\ LOG("psrdada HEADER")
              /\ stale_read' = (stale_read \/ HeaderReleased(hdr_cleared'))
              /\ pc' = "science_case"
              /\ UNCHANGED exit_status
         ELSE /\ LOG("ERROR. Cannot mark the header as cleared")
              /\ Exit(EXIT_FAILURE)
              /\ UNCHANGED <<hdr_cleared, stale_read>>
  /\ UNCHANGED <<sigsem, optVars, sigVars, rb, delivered, cleared, eod, paramVars,
                 fileVars, tab, loopVars>>

(* ------------------------------------------------------------------ *)
(* main: the run parameters                                            *)
(* ------------------------------------------------------------------ *)
\* CaseParameters with science case 4 given the parameters of science case 3
CaseParameters_Case4AsCase3(sc) ==
  IF sc = 3 \/ sc = 4
    THEN [ok |-> TRUE, ntimes |-> NTIMES_SC3, tsamp |-> Tsamp(NTIMES_SC3)]
    ELSE [ok |-> FALSE, ntimes |-> ntimes, tsamp |-> tsamp]

\* if (science_case == 3) ... else if (science_case == 4) ... else: what the
\* branches assign (ok = FALSE: the branch that exits)
CaseParameters(sc) ==
  IF sc = 3
    THEN [ok |-> TRUE, ntimes |-> NTIMES_SC3, tsamp |-> Tsamp(NTIMES_SC3)]
    ELSE IF sc = 4
      THEN [ok |-> TRUE, ntimes |-> NTIMES_SC4, tsamp |-> Tsamp(NTIMES_SC4)]
      ELSE [ok |-> FALSE, ntimes |-> ntimes, tsamp |-> tsamp]

ResolveCase ==
  /\ MainRuns /\ pc = "science_case"
  /\ LET r == CaseParameters(science_case) IN
       /\ ntimes' = r.ntimes
       /\ tsamp' = r.tsamp
       /\ IF r.ok
            THEN /\ LOG("Science case")
                 /\ pc' = "science_mode"
                 /\ UNCHANGED exit_status
            ELSE /\ LOG("Error: Illegal science case")
                 /\ Exit(EXIT_FAILURE)
  /\ UNCHANGED <<sigsem, optVars, stale_read, sigVars, rbVars, science_case, science_mode,
                 padded_size, ntabs, fileVars, tab, loopVars>>

\* ModeParameters with the IQUV modes 1 and 3 accepted like 0 and 2
ModeParameters_AcceptsIQUV(sm) ==
  IF sm = 0 \/ sm = 1
    THEN [ok |-> TRUE, ntabs |-> NTABS_TAB, msg |-> "Science mode: I + TAB"]
    ELSE IF sm = 2 \/ sm = 3
      THEN [ok |-> TRUE, ntabs |-> NTABS_IAB, msg |-> "Science mode: I + IAB"]
      ELSE [ok |-> FALSE, ntabs |-> ntabs, msg |-> "Error: Illegal science mode"]

\* if (science_mode == 0) ... else if (science_mode == 2) ... else if (1 or 3) ... else
ModeParameters(sm) ==
  IF sm = 0
    THEN [ok |-> TRUE, ntabs |-> NTABS_TAB, msg |-> "Science mode: I + TAB"]
    ELSE IF sm = 2
      THEN [ok |-> TRUE, ntabs |-> NTABS_IAB, msg |-> "Science mode: I + IAB"]
      ELSE IF sm = 1 \/ sm = 3
        THEN [ok |-> FALSE, ntabs |-> ntabs,
              msg |-> "Error: modes IQUV+TAB / IQUV+IAB not supported"]
        ELSE [ok |-> FALSE, ntabs |-> ntabs, msg |-> "Error: Illegal science mode"]

ResolveMode ==
  /\ MainRuns /\ pc = "science_mode"
  /\ LET r == ModeParameters(science_mode) IN
       /\ ntabs' = r.ntabs
       /\ LOG(r.msg)
       /\ IF r.ok
            THEN /\ pc' = "open_files"
                 /\ UNCHANGED exit_status
            ELSE Exit(EXIT_FAILURE)
  /\ tab' = 0
  /\ UNCHANGED <<sigsem, optVars, stale_read, sigVars, rbVars, science_case, science_mode,
                 padded_size, ntimes, tsamp, fileVars, loopVars>>

(* ------------------------------------------------------------------ *)
(* The output files                                                    *)
(* ------------------------------------------------------------------ *)
DigitChar(d) == <<"0", "1", "2", "3", "4", "5", "6", "7", "8", "9">>[d + 1]

\* the decimal digits of n >= 0
RECURSIVE Decimal(_)
Decimal(n) == IF n < 10 THEN <<DigitChar(n)>> ELSE Decimal(n \div 10) \o <<DigitChar(n % 10)>>

\* the conversion %02i: at least two digits, padded with a zero on the left
Fmt02i(n) == IF Len(Decimal(n)) < 2 THEN <<"0">> \o Decimal(n) ELSE Decimal(n)

\* snprintf(fname, size, ...): the first size - 1 characters of the text are stored
snprintf(size, text) == SubSeq(text, 1, IF Len(text) < size THEN Len(text) ELSE size - 1)

DotFil == <<".", "f", "i", "l">>

\* the name open_files gives the file of beam t: "%s.fil" or "%s_%02i.fil"
FileName(prefix, nt, t) ==
  IF nt = 1
    THEN snprintf(FNAME_SIZE, prefix \o DotFil)
    ELSE snprintf(FNAME_SIZE, prefix \o <<"_">> \o Fmt02i(t + 1) \o DotFil)

\* filterbank_create(fname, ..., nbeams, ibeam, nifs): creates the file, writes
\* the header and returns the descriptor
filterbank_create(t) == FIRST_FD + t

Created(fname, nbeams, ibeam) ==
  [created |-> TRUE, open |-> TRUE, dirty |-> TRUE, closes |-> 0, closed_dirty |-> FALSE,
   name |-> fname, ibeam |-> ibeam, nbeams |-> nbeams, data |-> <<>>]

\* fsync(fd): what was written is on stable storage
fsync(fs, fd) ==
  IF fd \in Fds /\ fs[fd].open THEN [fs EXCEPT ![fd].dirty = FALSE] ELSE fs

\* filterbank_close(fd)
filterbank_close(fs, fd) ==
  IF fd \in Fds
    THEN [fs EXCEPT ![fd].open = FALSE,
                    ![fd].closes = @ + 1,
                    ![fd].closed_dirty = @ \/ (fs[fd].open /\ fs[fd].dirty)]
    ELSE fs

\* one iteration of the loop of open_files
OpenFile ==
  /\ MainRuns /\ pc = "open_files"
  /\ tab < ntabs
  /\ LET fd == filterbank_create(tab) IN
       /\ output' = [output EXCEPT ![tab] = fd]
       /\ files' = [files EXCEPT
                     ![fd] = Created(FileName(file_prefix[1], ntabs, tab), ntabs, tab + 1)]
  /\ tab' = tab + 1
  /\ pc' = IF tab + 1 < ntabs THEN "open_files" ELSE "signal"
  /\ UNCHANGED <<exit_status, sigsem, optVars, stale_read, sigVars, rbVars, paramVars,
                 write_fault, loopVars, log>>

\* close_files(): defined in main.c, called from nowhere
RECURSIVE CloseFrom(_, _)
CloseFrom(fs, t) ==
  IF t < ntabs THEN CloseFrom(filterbank_close(fs, output[t]), t + 1) ELSE fs
close_files == CloseFrom(files, 0)

\* signal(SIGINT, sigint_handler), then the declarations before the loop
InstallHandler ==
  /\ MainRuns /\ pc = "signal"
  /\ disposition' = "handler"
  /\ page' = NULL
  /\ buffer' = [k \in 0 .. ntimes * nchannels - 1 |-> Uninit]
  /\ page_count' = 0
  /\ quit' = 0
  /\ pc' = "loop"
  /\ UNCHANGED <<exit_status, sigsem, optVars, stale_read, hpc, sig_blocked, sig_pending,
                 hi, rbVars, paramVars, fileVars, tab, eos_observed, log>>

(* ------------------------------------------------------------------ *)
(* The pages                                                           *)
(* ------------------------------------------------------------------ *)
\* size of a data page of the ring buffer: [ntabs, nchannels, padded_size]
PageSize == ntabs * nchannels * padded_size

\* byte idx of the page with fill pattern seed
PageByte(seed, idx) == (seed * 128 + idx) % 256

\* page[idx]; g is what the read returns when idx lies past the end of the page
PageRead(pg, idx, g) == IF idx < PageSize THEN PageByte(pg[1], idx) ELSE g

\* the page that page points to (the last one handed out) is back with the writer
PageReleased == cleared >= Len(delivered)

\* the largest index the beam loop reads for beam tb
LastRead(tb) == (tb * nchannels + nchannels - 1) * padded_size + ntimes - 1

\* Store with the frequency order left as it is in the page
Store_NotReversed(buf, pg, tb, channel, time, g) ==
  [buf EXCEPT ![time * nchannels + channel] =
                 PageRead(pg, (tb * nchannels + channel) * padded_size + time, g)]

\* Store with the channel left out of the index into buffer: the channels of a
\* time sample all land in one cell
Store_ChannelDropped(buf, pg, tb, channel, time, g) ==
  [buf EXCEPT ![time * nchannels + nchannels - 1] =
                 PageRead(pg, (tb * nchannels + channel) * padded_size + time, g)]

\* buffer[time*nchannels+nchannels-channel-1] = page[(tab*nchannels + channel) * padded_size + time]
Store(buf, pg, tb, channel, time, g) ==
  [buf EXCEPT ![time * nchannels + nchannels - channel - 1] =
                 PageRead(pg, (tb * nchannels + channel) * padded_size + time, g)]

\* for (time = 0; time < ntimes; time++)
RECURSIVE TimeLoop(_, _, _, _, _, _)
TimeLoop(buf, pg, tb, channel, time, g) ==
  IF time < ntimes
    THEN TimeLoop(Store(buf, pg, tb, channel, time, g), pg, tb, channel, time + 1, g)
    ELSE buf

\* for (channel = 0; channel < nchannels; channel++)
RECURSIVE ChannelLoop(_, _, _, _, _)
ChannelLoop(buf, pg, tb, channel, g) ==
  IF channel < nchannels
    THEN ChannelLoop(TimeLoop(buf, pg, tb, channel, 0, g), pg, tb, channel + 1, g)
    ELSE buf

\* what write(fd, buffer, n) may return: n, or a short count, or -1
WriteResults(n) ==
  {n} \cup (IF write_fault THEN {} ELSE {-1, n - 1})

\* the file after write() returned r
Written(f, buf, r) ==
  IF r <= 0
    THEN f
    ELSE [f EXCEPT !.data = Append(@, [k \in 0 .. r - 1 |-> buf[k]]), !.dirty = TRUE]

\* LoopCheck for a loop that tests only ipcbuf_eod, not quit
LoopCheck_IgnoresQuit ==
  /\ MainRuns /\ pc = "loop"
  /\ \E e \in (IF eod THEN {TRUE} ELSE BOOLEAN) :
       /\ eod' = e
       /\ eos_observed' = (eos_observed \/ e)
       /\ pc' = IF e THEN "after_loop" ELSE "get_page"
  /\ UNCHANGED <<exit_status, sigsem, optVars, stale_read, sigVars, rb, hdr_cleared,
                 delivered, cleared, paramVars, fileVars, tab, page, quit, page_count,
                 buffer, log>>

\* while(!quit && !ipcbuf_eod(data_block))
LoopCheck ==
  /\ MainRuns /\ pc = "loop"
  /\ IF quit # 0
       THEN /\ pc' = "after_loop"
            /\ UNCHANGED <<eod, eos_observed>>
       ELSE \E e \in (IF eod THEN {TRUE} ELSE BOOLEAN) :
              /\ eod' = e
              /\ eos_observed' = (eos_observed \/ e)
              /\ pc' = IF e THEN "after_loop" ELSE "get_page"
  /\ UNCHANGED <<exit_status, sigsem, optVars, stale_read, sigVars, rb, hdr_cleared,
                 delivered, cleared, paramVars, fileVars, tab, page, quit, page_count,
                 buffer, log>>

\* page = ipcbuf_get_next_read(data_block, &bufsz); if (! page) quit = 1;
GetPage ==
  /\ MainRuns /\ pc = "get_page"
  /\ \/ /\ page' = NULL
        /\ quit' = 1
        /\ eos_observed' = TRUE
        /\ pc' = "loop"
        /\ UNCHANGED <<delivered, tab>>
     \/ /\ Len(delivered) < MaxPages
        /\ \E seed \in PageSeeds :
             /\ page' = <<seed>>
             /\ delivered' = Append(delivered, seed)
        /\ tab' = 0
        /\ pc' = "tabs"
        /\ UNCHANGED <<quit, eos_observed>>
  /\ UNCHANGED <<exit_status, sigsem, optVars, stale_read, sigVars, rb, hdr_cleared,
                 cleared, eod, paramVars, fileVars, page_count, buffer, log>>

\* one iteration of for (tab = 0; tab < ntabs; tab++): fill buffer, write it
ProcessTab ==
  /\ MainRuns /\ pc = "tabs"
  /\ tab < ntabs
  /\ \E g \in (IF LastRead(tab) < PageSize THEN {0} ELSE Garbage) :
       /\ buffer' = ChannelLoop(buffer, page, tab, 0, g)
       /\ \E r \in WriteResults(ntimes * nchannels) :
            /\ files' = [files EXCEPT ![output[tab]] = Written(@, buffer', r)]
            /\ write_fault' = (write_fault \/ r # ntimes * nchannels)
  /\ stale_read' = (stale_read \/ PageReleased)
  /\ tab' = tab + 1
  /\ pc' = IF tab + 1 < ntabs THEN "tabs" ELSE "mark_cleared"
  /\ UNCHANGED <<exit_status, sigsem, optVars, sigVars, rbVars, paramVars, output, page, quit,
                 page_count, eos_observed, log>>

\* the read of page[...] past the end of the page faults
ProcessTabFault ==
  /\ MainRuns /\ pc = "tabs"
  /\ tab < ntabs
  /\ LastRead(tab) >= PageSize
  /\ pc' = "killed"
  /\ exit_status' = <<128 + SIGSEGV>>
  /\ UNCHANGED <<sigsem, optVars, stale_read, sigVars, rbVars, paramVars, fileVars, tab,
                 loopVars, log>>

\* ipcbuf_mark_cleared((ipcbuf_t *) ipc); page_count++;
ClearPage ==
  /\ MainRuns /\ pc = "mark_cleared"
  /\ cleared' = cleared + 1
  /\ page_count' = page_count + 1
  /\ pc' = "loop"
  /\ UNCHANGED <<exit_status, sigsem, optVars, stale_read, sigVars, rb, hdr_cleared,
                 delivered, eod, paramVars, fileVars, tab, page, quit, buffer,
                 eos_observed, log>>

\* if (ipcbuf_eod(data_block)) LOG("End of data received\n");
AfterLoop ==
  /\ MainRuns /\ pc = "after_loop"
  /\ \E e \in (IF eod THEN {TRUE} ELSE BOOLEAN) :
       /\ eod' = e
       /\ IF e THEN LOG("End of data received") ELSE UNCHANGED log
  /\ pc' = "unlock"
  /\ UNCHANGED <<exit_status, sigsem, optVars, stale_read, sigVars, rb, hdr_cleared,
                 delivered, cleared, paramVars, fileVars, tab, loopVars>>

\* dada_hdu_unlock_read(ringbuffer);
UnlockRead ==
  /\ MainRuns /\ pc = "unlock"
  /\ rb' = "unlocked"
  /\ pc' = "disconnect"
  /\ UNCHANGED <<exit_status, sigsem, optVars, stale_read, sigVars, hdr_cleared, delivered,
                 cleared, eod, paramVars, fileVars, tab, loopVars, log>>

\* dada_hdu_disconnect(ringbuffer);
Disconnect ==
  /\ MainRuns /\ pc = "disconnect"
  /\ rb' = "disconnected"
  /\ pc' = "finish"
  /\ UNCHANGED <<exit_status, sigsem, optVars, stale_read, sigVars, hdr_cleared, delivered,
                 cleared, eod, paramVars, fileVars, tab, loopVars, log>>

\* free(buffer); LOG("Read %i pages\n", page_count); and main returns
Finish ==
  /\ MainRuns /\ pc = "finish"
  /\ LOG("Read pages")
  /\ Exit(EXIT_SUCCESS)
  /\ UNCHANGED <<sigsem, optVars, stale_read, sigVars, rbVars, paramVars, fileVars, tab,
                 loopVars>>

(* ------------------------------------------------------------------ *)
(* SIGINT                                                              *)
(* ------------------------------------------------------------------ *)
\* SIGINT with the default disposition: the process is killed
SigintDefault ==
  /\ Running /\ ~sig_blocked /\ disposition = "default"
  /\ pc' = "killed"
  /\ exit_status' = <<128 + SIGINT>>
  /\ UNCHANGED <<sigsem, optVars, stale_read, sigVars, rbVars, paramVars, fileVars, tab,
                 loopVars, log>>

\* SigintCaught for a handler that stays installed with SIGINT not blocked while
\* it runs (SA_NODEFER): a second SIGINT re-enters it
SigintCaught_Reentrant ==
  /\ Running /\ ~sig_blocked /\ disposition = "handler"
  /\ hpc' = "log"
  /\ UNCHANGED <<procVars, sigsem, optVars, stale_read, disposition, sig_blocked,
                 sig_pending, hi, rbVars, paramVars, fileVars, tab, loopVars, log>>

\* SIGINT while sigint_handler is installed: the handler is entered
SigintCaught ==
  /\ Running /\ ~sig_blocked /\ disposition = "handler"
  /\ hpc' = "log"
  /\ IF sigsem = "bsd"
       THEN sig_blocked' = TRUE /\ UNCHANGED disposition
       ELSE disposition' = "default" /\ UNCHANGED sig_blocked
  /\ UNCHANGED <<procVars, sigsem, optVars, stale_read, sig_pending, hi, rbVars, paramVars,
                 fileVars, tab, loopVars, log>>

\* SIGINT while it is blocked: it stays pending
SigintBlocked ==
  /\ Running /\ sig_blocked /\ ~sig_pending
  /\ sig_pending' = TRUE
  /\ UNCHANGED <<procVars, sigsem, optVars, stale_read, disposition, hpc, sig_blocked, hi,
                 rbVars, paramVars, fileVars, tab, loopVars, log>>

\* LOG("SIGINT received, aborting\n");
HandlerLog ==
  /\ Running /\ hpc = "log"
  /\ LOG("SIGINT received, aborting")
  /\ hi' = 0
  /\ hpc' = "loop"
  /\ UNCHANGED <<procVars, sigsem, optVars, stale_read, disposition, sig_blocked,
                 sig_pending, rbVars, paramVars, fileVars, tab, loopVars>>

\* SyncAndClose without the fsync
SyncAndClose_NoSync(fs, fd) == IF fd # 0 THEN filterbank_close(fs, fd) ELSE fs

\* if (output[i]) { fsync(output[i]); filterbank_close(output[i]); }
SyncAndClose(fs, fd) == IF fd # 0 THEN filterbank_close(fsync(fs, fd), fd) ELSE fs

\* one iteration of for (i=0; i<ntabs; i++)
HandlerStream ==
  /\ Running /\ hpc = "loop"
  /\ hi < ntabs
  /\ files' = SyncAndClose(files, output[hi])
  /\ hi' = hi + 1
  /\ hpc' = IF hi + 1 < ntabs THEN "loop" ELSE "exit"
  /\ UNCHANGED <<procVars, sigsem, optVars, stale_read, disposition, sig_blocked,
                 sig_pending, rbVars, paramVars, output, write_fault, tab, loopVars, log>>

\* exit(EXIT_FAILURE);
HandlerExit ==
  /\ Running /\ hpc = "exit"
  /\ Exit(EXIT_FAILURE)
  /\ UNCHANGED <<sigsem, optVars, stale_read, sigVars, rbVars, paramVars, fileVars, tab,
                 loopVars, log>>

(* ------------------------------------------------------------------ *)
(* The program                                                         *)
(* ------------------------------------------------------------------ *)
Next ==
  \/ ParseOptions \/ OpenLog
  \/ Connect \/ LockRead \/ ReadHeader \/ ClearHeader
  \/ ResolveCase \/ ResolveMode
  \/ OpenFile \/ InstallHandler
  \/ LoopCheck \/ GetPage \/ ProcessTab \/ ProcessTabFault \/ ClearPage
  \/ AfterLoop \/ UnlockRead \/ Disconnect \/ Finish
  \/ SigintDefault \/ SigintCaught \/ SigintBlocked
  \/ HandlerLog \/ HandlerStream \/ HandlerExit

Spec == Init /\ [][Next]_vars

\* the steps of main(); the program is sequential, and each call it makes returns
Main ==
  \/ ParseOptions \/ OpenLog
  \/ Connect \/ LockRead \/ ReadHeader \/ ClearHeader
  \/ ResolveCase \/ ResolveMode
  \/ OpenFile \/ InstallHandler
  \/ LoopCheck \/ GetPage \/ ProcessTab \/ ProcessTabFault \/ ClearPage
  \/ AfterLoop \/ UnlockRead \/ Disconnect \/ Finish

\* main() keeps running while nothing stops it
FairSpec == Spec /\ WF_vars(Main)

(* ------------------------------------------------------------------ *)
(* Vocabulary of the properties                                        *)
(* ------------------------------------------------------------------ *)
Terminated == exit_status # <<>>
\* main returned: the run ended at end of data
NormalEnd == pc = "exited" /\ exit_status = <<EXIT_SUCCESS>>
\* sigint_handler ran to its exit(EXIT_FAILURE)
HandlerEnd == pc = "exited" /\ hpc = "exit"
\* the process was killed by a SIGINT nobody caught
KilledBySigint == pc = "killed" /\ exit_status = <<128 + SIGINT>>
Beams == 0 .. ntabs - 1
BlockLen == ntimes * nchannels
OpenedFds == {fd \in Fds : files[fd].created}
ValidCase == science_case \in {3, 4}
ValidMode == science_mode \in {0, 2}
\* the block of beam b of the page with fill pattern seed: time-major, channel
\* axis reversed, padding skipped
ExpectedBlock(seed, b) ==
  [i \in 0 .. BlockLen - 1 |->
     PageByte(seed, (b * nchannels + (nchannels - 1 - (i % nchannels))) * padded_size
                    + (i \div nchannels))]

(* ------------------------------------------------------------------ *)
(* C1                                                                  *)
(* ------------------------------------------------------------------ *)
\* C1: when a run without interrupt ends at end of data after N pages were
\* delivered (pages as wide as the header says, padded_size >= ntimes), every
\* beam's file holds exactly N appended blocks of ntimes*nchannels bytes, the
\* k-th being the transcoding of the k-th page delivered.
C1_BlocksInPageOrder ==
  (NormalEnd /\ padded_size >= ntimes) =>
    \A b \in Beams :
      LET d == files[output[b]].data IN
        /\ Len(d) = Len(delivered)
        /\ \A k \in 1 .. Len(d) : d[k] = ExpectedBlock(delivered[k], b)

(* ------------------------------------------------------------------ *)
(* C3                                                                  *)
(* ------------------------------------------------------------------ *)
\* C3: when the process has exited, by returning from main at end of data or
\* through sigint_handler, every output file that was opened has been closed
\* exactly once.
C3_ClosedExactlyOnce ==
  pc = "exited" => \A fd \in OpenedFds : files[fd].closes = 1 /\ ~files[fd].open

(* ------------------------------------------------------------------ *)
(* C4                                                                  *)
(* ------------------------------------------------------------------ *)
\* C4: a process that SIGINT ended (killed by it, or through sigint_handler)
\* leaves no opened output file open or unsynced.
C4_InterruptNeverBypassesSync ==
  (KilledBySigint \/ HandlerEnd) =>
    \A fd \in OpenedFds : ~files[fd].open /\ ~files[fd].dirty /\ ~files[fd].closed_dirty

(* ------------------------------------------------------------------ *)
(* C2                                                                  *)
(* ------------------------------------------------------------------ *)
\* C2: after the beam loop has filled buffer for beam b = tab - 1, for every
\* channel c and time t whose cell lies inside the page,
\* buffer[t*nchannels + (nchannels-1-c)] = page[(b*nchannels + c)*padded_size + t];
\* and the block a complete write() appended to the beam's file is that buffer.
C2_TimeMajorChannelReversed ==
  (pc \in {"tabs", "mark_cleared"} /\ tab > 0) =>
    LET b == tab - 1 IN
      /\ DOMAIN buffer = 0 .. BlockLen - 1
      /\ \A c \in 0 .. nchannels - 1 : \A t \in 0 .. ntimes - 1 :
           LET idx == (b * nchannels + c) * padded_size + t IN
             idx < PageSize =>
               buffer[t * nchannels + (nchannels - 1 - c)] = PageByte(page[1], idx)
      /\ ~write_fault =>
           /\ Len(files[output[b]].data) = Len(delivered)
           /\ files[output[b]].data[Len(delivered)] = buffer

\* the last beam of the second page has been transcoded from a page with padding
C2_Witness ==
  /\ pc = "mark_cleared" /\ ntabs = NTABS_TAB /\ tab = ntabs
  /\ padded_size > ntimes /\ Len(delivered) = 2 /\ ~write_fault
  /\ delivered[1] # delivered[2]

(* ------------------------------------------------------------------ *)
(* C5                                                                  *)
(* ------------------------------------------------------------------ *)
\* C5: no output file is ever closed with unsynced data (fsync comes before the
\* close of each file), and when sigint_handler has run to its end, every opened
\* file, so every file that received a block of page M or an earlier page, is
\* synced and closed, "SIGINT received" is in the log and the process has exited
\* with EXIT_FAILURE.
C5_HandlerSyncsClosesLogsFails ==
  /\ \A fd \in Fds : ~files[fd].closed_dirty
  /\ HandlerEnd =>
       /\ exit_status = <<EXIT_FAILURE>>
       /\ \E n \in 1 .. Len(log) : log[n] = "SIGINT received, aborting"
       /\ \A fd \in OpenedFds : ~files[fd].open /\ ~files[fd].dirty /\ files[fd].closes >= 1
       /\ \A b \in Beams : files[output[b]].created

\* the handler ended a run it interrupted in the middle of the second page: the
\* first beam has two blocks, the last beam one
C5_Witness ==
  /\ HandlerEnd /\ ntabs = NTABS_TAB /\ Len(delivered) = 2
  /\ Len(files[output[0]].data) = 2
  /\ Len(files[output[ntabs - 1]].data) = 1

(* ------------------------------------------------------------------ *)
(* C6                                                                  *)
(* ------------------------------------------------------------------ *)
\* C6 as claimed: close-all is idempotent, that is, the handler's loop body
\* skips a file that has already been closed.
C6_ClosedStreamIsSkipped ==
  \A b \in Beams :
    (output[b] # 0 /\ files[output[b]].closes > 0) =>
      SyncAndClose(files, output[b]) = files

\* C6 as amended: no output file is closed more than once in any execution
\* (sigint_handler runs at most once, and nothing else closes a file).
C6_NeverClosedTwice ==
  \A fd \in Fds : files[fd].closes <= 1

\* a second SIGINT arrived while the handler had closed some files but not all
C6_Witness ==
  /\ hpc = "loop" /\ hi >= 1 /\ hi < ntabs /\ sig_pending
  /\ files[output[0]].closes = 1 /\ files[output[hi]].open

(* ------------------------------------------------------------------ *)
(* C7                                                                  *)
(* ------------------------------------------------------------------ *)
\* C7: the process exits with status 0 only at end of data and never after a
\* write() that failed or was short; every other end is a failure.
C7_ExitZeroOnlyWithoutFailure ==
  /\ exit_status = <<EXIT_SUCCESS>> => (eos_observed /\ ~write_fault)
  /\ (Terminated /\ ~eos_observed) => exit_status # <<EXIT_SUCCESS>>

(* ------------------------------------------------------------------ *)
(* C8                                                                  *)
(* ------------------------------------------------------------------ *)
\* C8: once main is past the science-case test, science_case is 3 or 4 and
\* ntimes, tsamp are NTIMES_SC3, 1.024/NTIMES_SC3 for case 3 and NTIMES_SC4,
\* 1.024/NTIMES_SC4 for case 4; once it is past the science-mode test,
\* science_mode is 0 or 2 and ntabs is NTABS_TAB for mode 0 and NTABS_IAB for
\* mode 2; with any other pair the process never gets there and, once the
\* tests have run, has exited with EXIT_FAILURE.
PastCaseTest == pc \notin {"parse_options", "open_log", "connect", "lock", "header",
                           "clear_header", "science_case", "exited", "killed"}
PastModeTest == PastCaseTest /\ pc # "science_mode"

C8_ParameterResolution ==
  /\ PastCaseTest =>
       /\ ValidCase
       /\ science_case = 3 => (ntimes = NTIMES_SC3 /\ tsamp = Tsamp(NTIMES_SC3))
       /\ science_case = 4 => (ntimes = NTIMES_SC4 /\ tsamp = Tsamp(NTIMES_SC4))
  /\ PastModeTest =>
       /\ ValidMode
       /\ science_mode = 0 => ntabs = NTABS_TAB
       /\ science_mode = 2 => ntabs = NTABS_IAB
  /\ (pc = "exited" /\ ~(ValidCase /\ ValidMode)) =>
       (exit_status = <<EXIT_FAILURE>> /\ ntabs = NTABS_IAB)

\* science case 4 with science mode 0 has been resolved
C8_Witness ==
  /\ pc = "open_files" /\ science_case = 4 /\ science_mode = 0
  /\ ntimes = NTIMES_SC4 /\ ntabs = NTABS_TAB

(* ------------------------------------------------------------------ *)
(* C9                                                                  *)
(* ------------------------------------------------------------------ *)
\* C9: while the science case or the science mode of the header is unsupported,
\* no output file exists, no data page has been requested, and an exit is a
\* failure; files are opened only with a supported case and mode.
C9_NoOutputBeforeValidation ==
  /\ ~(ValidCase /\ ValidMode) =>
       /\ OpenedFds = {}
       /\ delivered = <<>> /\ ~eos_observed
       /\ pc \in {"clear_header", "science_case", "science_mode", "exited", "killed"}
       /\ pc = "exited" => exit_status = <<EXIT_FAILURE>>
  /\ pc = "open_files" => (ValidCase /\ ValidMode)

\* science mode 1 in the header: the process exited with failure after the test
C9_Witness ==
  /\ science_mode = 1 /\ ValidCase /\ pc = "exited" /\ exit_status = <<EXIT_FAILURE>>
  /\ hdr_cleared = 1 /\ OpenedFds = {}
  /\ log[Len(log)] = "Error: modes IQUV+TAB / IQUV+IAB not supported"

(* ------------------------------------------------------------------ *)
(* C10                                                                 *)
(* ------------------------------------------------------------------ *)
\* once main has seen end of data or a NULL page, it is on the way out: it
\* requests no page, unlocks before it disconnects, and a return from main is
\* an exit with status 0 from a disconnected ring buffer
ShutdownOrder ==
  /\ (eos_observed /\ MainRuns) =>
       /\ pc \in {"loop", "after_loop", "unlock", "disconnect", "finish"}
       /\ pc = "loop" => quit # 0
  /\ (MainRuns /\ pc \in {"after_loop", "unlock"}) => rb = "locked"
  /\ (MainRuns /\ pc = "disconnect") => rb = "unlocked"
  /\ (MainRuns /\ pc = "finish") => rb = "disconnected"
  /\ (pc = "exited" /\ eos_observed /\ ~InHandler) =>
       (exit_status = <<EXIT_SUCCESS>> /\ rb = "disconnected")

\* C10: ShutdownOrder holds in every state, and once end of data (or a NULL
\* page) has been seen, the process ends unless SIGINT is caught first.
C10_EndOfStreamTerminates ==
  /\ []ShutdownOrder
  /\ (eos_observed ~> (Terminated \/ InHandler))

\* main returned after the transport delivered pages and then returned NULL
C10_Witness ==
  /\ NormalEnd /\ rb = "disconnected" /\ quit = 1 /\ ~eod
  /\ Len(delivered) = 1 /\ page_count = 1

(* ------------------------------------------------------------------ *)
(* C11                                                                 *)
(* ------------------------------------------------------------------ *)
\* open_files has returned and the process is alive
PastOpenFiles == PastModeTest /\ pc # "open_files"

\* the name the file of beam b is to have: <prefix>.fil for a single beam,
\* <prefix>_NN.fil with NN = b + 1 in two digits otherwise
ExpectedName(b) ==
  IF ntabs = 1
    THEN file_prefix[1] \o DotFil
    ELSE file_prefix[1] \o <<"_", DigitChar((b + 1) \div 10), DigitChar((b + 1) % 10)>>
                       \o DotFil

\* s is the sequence of the first Len(s) entries of the function f on 0 .. n
IsPrefixOf(s, f) ==
  /\ Cardinality(DOMAIN s) <= Cardinality(DOMAIN f)
  /\ \A k \in DOMAIN s : k \in DOMAIN f /\ s[k] = f[k]

\* C11: once open_files has returned there are exactly ntabs output files;
\* the file of beam b (b = 0 .. ntabs-1) is named <prefix>.fil when ntabs = 1
\* and <prefix>_NN.fil with NN = b + 1 otherwise, the names are pairwise
\* distinct, its header carries ibeam = b + 1 and nbeams = ntabs, and every
\* block it holds was transcoded from beam b of a delivered page.
C11_OneNamedStreamPerBeam ==
  PastOpenFiles =>
    /\ Cardinality(OpenedFds) = ntabs
    /\ \A b \in Beams :
         LET f == files[output[b]] IN
           /\ f.created
           /\ f.name = ExpectedName(b)
           /\ f.ibeam = b + 1 /\ f.nbeams = ntabs
           /\ padded_size >= ntimes =>
                \A k \in 1 .. Len(f.data) :
                  \E n \in 1 .. Len(delivered) :
                    IsPrefixOf(f.data[k], ExpectedBlock(delivered[n], b))
    /\ \A b1 \in Beams : \A b2 \in Beams :
         b1 # b2 => files[output[b1]].name # files[output[b2]].name

(* ------------------------------------------------------------------ *)
(* C12                                                                 *)
(* ------------------------------------------------------------------ *)
RequiredFlags == {"k", "l", "n"}
FlagsOf(av) == {av[i].flag : i \in 1 .. Len(av)}
\* the first option of the command line that is not -k, -l or -n is its i-th
FirstOther(i) ==
  /\ i \in 1 .. Len(argv)
  /\ argv[i].flag \notin RequiredFlags
  /\ \A j \in 1 .. i - 1 : argv[j].flag \in RequiredFlags
HelpAsked == \E i \in 1 .. Len(argv) : FirstOther(i) /\ argv[i].flag = "h"
UnknownFlag == \E i \in 1 .. Len(argv) : FirstOther(i) /\ argv[i].flag # "h"
RequiredMissing == FlagsOf(argv) \subseteq RequiredFlags /\ FlagsOf(argv) # RequiredFlags
UsagePrinted == \E n \in 1 .. Len(console) : console[n] = printOptions(<<>>)[1]
\* dada_hdu_connect was not called
NoConnectionAttempt ==
  /\ rb = "created"
  /\ \A n \in 1 .. Len(log) : log[n] \notin {"SHMKEY", "ERROR in dada_hdu_connect"}

\* C12: once parseOptions has run, a command line with -h has printed the
\* usage text and exited with EXIT_SUCCESS; one with an unknown flag has exited
\* with EXIT_FAILURE; one that lacks -k, -l or -n has exited with EXIT_FAILURE
\* and no connection to the ring buffer was attempted.
C12_CommandLineHandling ==
  pc \notin {"parse_options", "killed"} =>
    /\ HelpAsked => (pc = "exited" /\ exit_status = <<EXIT_SUCCESS>> /\ UsagePrinted)
    /\ UnknownFlag => (pc = "exited" /\ exit_status = <<EXIT_FAILURE>>)
    /\ RequiredMissing =>
         (pc = "exited" /\ exit_status = <<EXIT_FAILURE>> /\ NoConnectionAttempt)

(* ------------------------------------------------------------------ *)
(* C13                                                                 *)
(* ------------------------------------------------------------------ *)
\* the file of beam b holds a complete block for each of the first n pages
HoldsBlocks(b, n) ==
  LET d == files[output[b]].data IN
    /\ Len(d) >= n
    /\ \A k \in 1 .. n : DOMAIN d[k] = 0 .. BlockLen - 1

\* C13: the data block is marked cleared once per page obtained and never
\* more: while main holds a page (beam loop, or about to clear) exactly the
\* pages before it are cleared, and whenever it is at the loop test, requests
\* a page or is past the loop, every page obtained is cleared; a page is
\* cleared only when every beam's file holds its block; nothing is cleared
\* when ipcbuf_get_next_read returned no page.
C13_PageClearedOnceAfterAllBeams ==
  /\ cleared <= Len(delivered)
  /\ cleared = page_count
  /\ pc \in {"tabs", "mark_cleared"} => Len(delivered) = cleared + 1
  /\ pc = "mark_cleared" => tab = ntabs
  /\ pc \in {"loop", "get_page", "after_loop", "unlock", "disconnect", "finish"} =>
       cleared = Len(delivered)
  /\ PastOpenFiles => \A b \in Beams : HoldsBlocks(b, cleared)

(* ------------------------------------------------------------------ *)
(* C14                                                                 *)
(* ------------------------------------------------------------------ *)
\* the index of the page the beam loop reads for (beam, channel, time)
ReadIndex(b, channel, time) == (b * nchannels + channel) * padded_size + time

\* C14: whenever main is in the beam loop of a page, padded_size >= ntimes,
\* and every index the loop reads for (beam, channel, time) lies inside the
\* page, in the row of that beam and channel, and among the first ntimes
\* entries of the row.
C14_ReadsStayInsideOwnRow ==
  pc = "tabs" =>
    /\ padded_size >= ntimes
    /\ \A b \in Beams : \A c \in 0 .. nchannels - 1 : \A t \in 0 .. ntimes - 1 :
         LET idx == ReadIndex(b, c, t) IN
           /\ idx < PageSize
           /\ idx \div padded_size = b * nchannels + c
           /\ idx % padded_size < ntimes

(* ------------------------------------------------------------------ *)
(* C15                                                                 *)
(* ------------------------------------------------------------------ *)
\* where the ring buffer client is while main is at each of its positions
LifecycleState ==
  /\ hdr_cleared <= 1
  /\ pc \in {"parse_options", "open_log", "connect"} => rb = "created"
  /\ pc = "lock" => rb = "connected"
  /\ pc \in {"header", "clear_header"} => (rb = "locked" /\ hdr_cleared = 0)
  /\ pc \in {"loop", "get_page", "tabs", "mark_cleared"} => (rb = "locked" /\ hdr_cleared = 1)
  /\ hdr_cleared = 1 => rb \in {"locked", "unlocked", "disconnected"}
  /\ (delivered # <<>> \/ eos_observed) => hdr_cleared = 1

\* what a step may do to the ring buffer
LifecycleStep ==
  /\ rb' # rb => <<rb, rb'>> \in {<<"created", "connected">>, <<"connected", "locked">>,
                                 <<"locked", "unlocked">>, <<"unlocked", "disconnected">>}
  /\ hdr_cleared' # hdr_cleared =>
       (pc = "clear_header" /\ rb = "locked" /\ hdr_cleared = 0 /\ hdr_cleared' = 1)
  /\ (pc = "header" /\ pc' = "clear_header") => (rb = "locked" /\ hdr_cleared = 0)
  /\ (delivered' # delivered \/ page' # page \/ quit' # quit) =>
       ((hdr_cleared = 1 /\ rb = "locked") \/ pc = "signal")

\* C15: the ring buffer is connected, then locked for reading, then the header
\* block is read, then marked cleared, once, and only then does main ask for
\* data pages: no page is requested before the header block is cleared, and
\* the header block is never cleared twice.
C15_LifecycleOrder == []LifecycleState /\ [][LifecycleStep]_vars

\* main holds the second data page
C15_Witness ==
  /\ pc = "tabs" /\ Len(delivered) = 2 /\ hdr_cleared = 1 /\ rb = "locked"

(* ------------------------------------------------------------------ *)
(* C16                                                                 *)
(* ------------------------------------------------------------------ *)
\* dada_hdu_lock_read has succeeded at some point of the run
WasReadLocked == rb \in {"locked", "unlocked", "disconnected"}

\* C16: when a run that locked the ring buffer for reading has ended, by the
\* return of main at end of data or through sigint_handler, the ring buffer
\* has been unlocked and then disconnected.
C16_EndsClosed ==
  ((NormalEnd \/ HandlerEnd) /\ WasReadLocked) => rb = "disconnected"

(* ------------------------------------------------------------------ *)
(* C17                                                                 *)
(* ------------------------------------------------------------------ *)
\* main is inside ipcbuf_get_next_read, waiting for the header block or for a page
WaitingForBlock == pc \in {"header", "get_page"}
\* main has written the blocks of some beams of the page it holds, not of all
BetweenBeams == pc = "tabs" /\ 0 < tab /\ tab < ntabs

\* C17: whenever sigint_handler runs, main is stopped inside the wait for the
\* header block or for the next page; in particular it is never stopped
\* between the beams of a page.
C17_HandlerOnlyWhileWaiting ==
  InHandler => (WaitingForBlock /\ ~BetweenBeams)

(* ------------------------------------------------------------------ *)
(* C18                                                                 *)
(* ------------------------------------------------------------------ *)
\* C18: the program never reads the memory of a block (the header block or a
\* data page) after it has marked that block cleared.
C18_NoReadAfterClear == ~stale_read

(* ------------------------------------------------------------------ *)
(* C19                                                                 *)
(* ------------------------------------------------------------------ *)
\* the number of blocks in the file of beam b (none while the file is not open)
Blocks(b) == IF output[b] = 0 THEN 0 ELSE Len(files[output[b]].data)

\* C19: in every state, for beams i < j the file of beam i holds as many
\* blocks as the file of beam j or one more, and whenever main is at the loop
\* test or requests a page, every beam's file holds exactly page_count blocks.
C19_BlockCountsStaggered ==
  /\ \A i \in Beams : \A j \in Beams :
       i < j => Blocks(i) - Blocks(j) \in {0, 1}
  /\ (pc \in {"loop", "get_page"}) => \A b \in Beams : Blocks(b) = page_count

(* ------------------------------------------------------------------ *)
(* C20                                                                 *)
(* ------------------------------------------------------------------ *)
\* a buffer of which no cell was written
Unwritten == [k \in 0 .. BlockLen - 1 |-> Uninit]
\* the cells of buffer that the assignment for (channel, time) writes
CellsWritten(channel, time) ==
  {k \in 0 .. BlockLen - 1 : Store(Unwritten, <<0>>, 0, channel, time, 0)[k] # Uninit}
Cells == (0 .. nchannels - 1) \X (0 .. ntimes - 1)

\* C20: when buffer is allocated (ntimes is settled), the assignments of the
\* channel and time loops write one cell each, different ones for different
\* (channel, time), and together all ntimes*nchannels cells of buffer; and
\* when the loops have run for a beam, buffer is what they make of a buffer
\* nobody wrote (nothing of what it held before is left), and no block in any
\* file has a cell that was not written for it.
C20_BufferFullyOverwritten ==
  /\ pc = "signal" =>
       /\ \A x \in Cells : Cardinality(CellsWritten(x[1], x[2])) = 1
       /\ \A x \in Cells : \A y \in Cells :
            x # y => CellsWritten(x[1], x[2]) \cap CellsWritten(y[1], y[2]) = {}
       /\ UNION {CellsWritten(x[1], x[2]) : x \in Cells} = 0 .. BlockLen - 1
  /\ (pc \in {"tabs", "mark_cleared"} /\ tab > 0) =>
       /\ \A k \in 0 .. BlockLen - 1 : buffer[k] # Uninit
       /\ \E g \in Garbage \cup {0} :
            buffer = ChannelLoop(Unwritten, page, tab - 1, 0, g)
  /\ \A b \in Beams : output[b] # 0 =>
       \A n \in 1 .. Len(files[output[b]].data) :
         \A k \in DOMAIN files[output[b]].data[n] :
           files[output[b]].data[n][k] # Uninit

\* the loops have run for the second beam of the second page, over a buffer
\* that held the first beam's block of this page and, before, the first page's
C20_Witness ==
  /\ pc = "tabs" /\ tab = 2 /\ Len(delivered) = 2 /\ delivered[1] # delivered[2]
  /\ ~write_fault /\ padded_size > ntimes
  /\ Len(files[output[1]].data) = 2
  /\ files[output[1]].data[2] = buffer
  /\ buffer # files[output[0]].data[2]

====
